---------------------------- MODULE Spec2Model ----------------------------
(* A model of the eGauge extraction backend:                               *)
(*   utils/sanitizers.py         identifier sanitizers                     *)
(*   utils/tariff_classifier.py  CFE tariff classification                 *)
(*   services/egauge_service.py  extract_data / _process_rows              *)
(*   services/supabase_service.py, routes/data.py   persistence            *)
(* Strings are sequences of one-character strings, so that the sanitizers  *)
(* are computed character by character as the Python code computes them.   *)
EXTENDS Integers, Sequences, FiniteSets, TLC

VARIABLES
    pc,              \* position of the operation under study: "ready" | "done"
    name,            \* sanitizers: the input string
    column,          \* sanitize_column_name(name)
    table,           \* sanitize_table_name(name)
    columns,         \* make_columns_unique: the input list of labels
    unique_columns,  \* make_columns_unique: the returned list
    timestamp,       \* classify_tariff: the datetime argument
    tariff,          \* classify_tariff: the returned tariff
    device,          \* the eGauge device: whether connecting and reading
                     \* succeed, whether its register list can be read, its
                     \* declared registers (ret.regs), its rows
    result,          \* what EGaugeService.extract_data returned
    reduced,         \* the outcome of EGaugeService._process_rows: the
                     \* exception it raised ("none" if none) and its list
    store,           \* the client's data table in Supabase: whether it
                     \* exists, and its rows in the order they were written
    client_columns,  \* the 'columns' field of the client's record
    data_to_insert,  \* routes/data.py: the rows prepared for insertion
    records_inserted,\* insert_data_batch: its counter
    response,        \* the last response of the /extract route
    request,         \* extract_data: start_date, end_date, delta_hours and
                     \* the clock's time (datetime.now()) during the call
    time_param,      \* the "time" parameter last sent to the device
    batch_size,      \* insert_data_batch: its batch_size argument
    submitted,       \* insert_data_batch: the batches handed to upsert
                     \* during the call, in order
    created,         \* routes/data.py: whether the request under way took
                     \* the branch of line 77 and created the table
    clients          \* the rows of the clients table: id, name, data_table

sanVars  == <<name, column, table>>
uniqVars == <<columns, unique_columns>>
tarVars  == <<timestamp, tariff>>
extVars  == <<device, result, reduced>>
rteVars  == <<store, client_columns, data_to_insert, records_inserted,
              response, created>>
rngVars  == <<request, time_param>>
insVars  == <<batch_size, submitted>>
vars     == <<pc, sanVars, uniqVars, tarVars, extVars, rteVars, rngVars,
              insVars, clients>>

--------------------------------------------------------------------------
(* Bounds of the model *)

\* longest input string given to the sanitizers
MaxLen == 3
\* longest list of labels given to make_columns_unique
MaxCols == 3
\* most rows a device returns
MaxRows == 3
\* most registers a device declares
MaxRegs == 2
\* most client records held at one time
MaxClients == 3
\* most records given to insert_data_batch alone
MaxRecords == 3
\* largest batch size given to insert_data_batch alone
MaxBatch == 3

--------------------------------------------------------------------------
(* Characters and strings *)

UpperCase == <<"A","B","C","D","E","F","G","H","I","J","K","L","M",
               "N","O","P","Q","R","S","T","U","V","W","X","Y","Z">>
LowerCase == <<"a","b","c","d","e","f","g","h","i","j","k","l","m",
               "n","o","p","q","r","s","t","u","v","w","x","y","z">>
Digits    == <<"0","1","2","3","4","5","6","7","8","9">>

Range(s) == { s[i] : i \in DOMAIN s }

\* str.lower() on one character
LowerChar(c) ==
    IF \E i \in DOMAIN UpperCase : UpperCase[i] = c
    THEN LowerCase[CHOOSE i \in DOMAIN UpperCase : UpperCase[i] = c]
    ELSE c

\* str.lower()
Lower(s) == [i \in DOMAIN s |-> LowerChar(s[i])]

\* the character class [a-z0-9_]
IsWordChar(c) == c \in Range(LowerCase) \cup Range(Digits) \cup {"_"}

\* str.isdigit() on one character
IsDigit(c) == c \in Range(Digits)

\* str.replace(old, new) for a one-character old
RECURSIVE Replace(_, _, _)
Replace(s, old, new) ==
    IF s = <<>> THEN <<>>
    ELSE (IF Head(s) = old THEN new ELSE <<Head(s)>>)
         \o Replace(Tail(s), old, new)

\* re.sub(r'[^a-z0-9_]', '_', s)
SubNonWord(s) == [i \in DOMAIN s |-> IF IsWordChar(s[i]) THEN s[i] ELSE "_"]

\* re.sub(r'_+', '_', s)
RECURSIVE SubUnderscores(_)
SubUnderscores(s) ==
    IF Len(s) < 2 THEN s
    ELSE IF s[1] = "_" /\ s[2] = "_" THEN SubUnderscores(Tail(s))
    ELSE <<s[1]>> \o SubUnderscores(Tail(s))

RECURSIVE LStrip(_)
LStrip(s) == IF s # <<>> /\ Head(s) = "_" THEN LStrip(Tail(s)) ELSE s

RECURSIVE RStrip(_)
RStrip(s) ==
    IF s # <<>> /\ s[Len(s)] = "_" THEN RStrip(SubSeq(s, 1, Len(s) - 1)) ELSE s

\* str.strip('_')
Strip(s) == RStrip(LStrip(s))

\* str(n)
RECURSIVE IntToStr(_)
IntToStr(n) ==
    IF n < 0 THEN <<"-">> \o IntToStr(0 - n)
    ELSE IF n < 10 THEN <<Digits[n + 1]>>
    ELSE IntToStr(n \div 10) \o <<Digits[(n % 10) + 1]>>

\* n formatted with at least w digits (%02d, %04d)
RECURSIVE ZeroPad(_, _)
ZeroPad(s, w) == IF Len(s) >= w THEN s ELSE ZeroPad(<<"0">> \o s, w)

\* dict[k] = v
Put(f, k, v) == [x \in DOMAIN f \cup {k} |-> IF x = k THEN v ELSE f[x]]

--------------------------------------------------------------------------
(* utils/sanitizers.py *)

DataPrefix  == <<"d","a","t","a","_">>
DataClient  == <<"d","a","t","a","_","c","l","i","e","n","t">>

\* sanitize_table_name with the digit test made before strip('_')
sanitize_table_name_digit_before_strip(n) ==
    LET collapsed == SubUnderscores(SubNonWord(Lower(n)))
        prefixed  == IF collapsed # <<>> /\ IsDigit(collapsed[1])
                     THEN DataPrefix \o collapsed ELSE collapsed
        t         == Strip(prefixed)
    IN  IF t # <<>> THEN t ELSE DataClient

sanitize_table_name(n) ==
    LET stripped == Strip(SubUnderscores(SubNonWord(Lower(n))))
        t        == IF stripped # <<>> /\ IsDigit(stripped[1])
                    THEN DataPrefix \o stripped ELSE stripped
    IN  IF t # <<>> THEN t ELSE DataClient

sanitize_column_name(n) ==
    LET lowered == Lower(n)
        plus    == Replace(lowered, "+", <<"_","p","l","u","s">>)
        dash    == Replace(plus, "-", <<"_">>)
    IN  Strip(SubUnderscores(SubNonWord(dash)))

\* f"{original}_{counter}"
Suffixed(original, counter) == original \o <<"_">> \o IntToStr(counter)

\* the while loop of make_columns_unique: the first candidate not in seen
RECURSIVE FirstFree(_, _, _, _)
FirstFree(sanitized, original, counter, seen) ==
    IF sanitized \in seen
    THEN FirstFree(Suffixed(original, counter), original, counter + 1, seen)
    ELSE sanitized

\* the loop body with an `if` in place of the `while`
UniqueOneIfOnly(col, seen) ==
    LET sanitized == sanitize_column_name(col)
    IN  IF sanitized \in seen THEN Suffixed(sanitized, 2) ELSE sanitized

\* the loop body with the counter started at 1
UniqueOneCountFromOne(col, seen) ==
    LET sanitized == sanitize_column_name(col)
    IN  FirstFree(sanitized, sanitized, 1, seen)

\* one iteration of the for loop: the identifier given to col
UniqueOne(col, seen) ==
    LET sanitized == sanitize_column_name(col)
    IN  FirstFree(sanitized, sanitized, 2, seen)

RECURSIVE UniqueFrom(_, _, _)
UniqueFrom(cols, seen, unique) ==
    IF cols = <<>> THEN unique
    ELSE LET u == UniqueOne(Head(cols), seen)
         IN  UniqueFrom(Tail(cols), seen \cup {u}, Append(unique, u))

make_columns_unique(cols) == UniqueFrom(cols, {}, <<>>)

--------------------------------------------------------------------------
(* utils/tariff_classifier.py *)

\* datetime.time(h, m, s) as seconds of the day, which orders like time
Time(h, m, s) == h * 3600 + m * 60 + s

\* the weekday counted one day early: Monday is 6, Sunday is 5
WeekdayOneEarly(dt) == (dt.day + 2) % 7

\* datetime.weekday(): 0 = Monday .. 6 = Sunday; day 0 (1970-01-01) is a
\* Thursday
Weekday(dt) == (dt.day + 3) % 7

_classify_weekday(current_time) ==
    LET peak_start == Time(18, 0, 0)
        peak_end   == Time(22, 0, 0)
        intermediate_morning_start == Time(6, 0, 0)
        intermediate_morning_end   == Time(10, 0, 0)
        intermediate_evening_start == Time(22, 0, 0)
        intermediate_evening_end   == Time(23, 59, 59)
    IN  IF peak_start <= current_time /\ current_time < peak_end
        THEN "Punta"
        ELSE IF \/ /\ intermediate_morning_start <= current_time
                   /\ current_time < intermediate_morning_end
                \/ /\ intermediate_evening_start <= current_time
                   /\ current_time <= intermediate_evening_end
        THEN "Intermedio"
        ELSE "Base"

\* classify_tariff with the weekend test is_weekend = day_of_week > 5
classify_tariff_sunday_only(dt) ==
    IF Weekday(dt) > 5 THEN "Base"
    ELSE _classify_weekday(Time(dt.hour, dt.minute, 0))

classify_tariff(dt) ==
    LET hour         == dt.hour
        minute       == dt.minute
        day_of_week  == Weekday(dt)
        current_time == Time(hour, minute, 0)
        is_weekend   == day_of_week >= 5
    IN  IF is_weekend THEN "Base" ELSE _classify_weekday(current_time)

--------------------------------------------------------------------------
(* datetime, as services/egauge_service.py uses it.  A datetime is        *)
(* [day, hour, minute, second] with day counted from 1970-01-01; the host *)
(* zone is taken to be UTC.                                                *)

\* datetime.fromtimestamp(ts)
fromtimestamp(ts) ==
    LET secs == ts % 86400
    IN  [day    |-> ts \div 86400,
         hour   |-> secs \div 3600,
         minute |-> (secs % 3600) \div 60,
         second |-> secs % 60]

\* the proleptic Gregorian date <<year, month, day>> of a day number
CivilFromDays(days) ==
    LET z   == days + 719468
        era == z \div 146097
        doe == z - era * 146097
        yoe == (doe - doe \div 1460 + doe \div 36524 - doe \div 146096) \div 365
        doy == doe - (365 * yoe + yoe \div 4 - yoe \div 100)
        mp  == (5 * doy + 2) \div 153
        d   == doy - (153 * mp + 2) \div 5 + 1
        m   == IF mp < 10 THEN mp + 3 ELSE mp - 9
        y   == yoe + era * 400 + (IF m <= 2 THEN 1 ELSE 0)
    IN  <<y, m, d>>

\* the day number of the proleptic Gregorian date y-m-d
DaysFromCivil(y, m, d) ==
    LET yy  == IF m <= 2 THEN y - 1 ELSE y
        era == yy \div 400
        yoe == yy - era * 400
        mp  == IF m > 2 THEN m - 3 ELSE m + 9
        doy == (153 * mp + 2) \div 5 + d - 1
        doe == yoe * 365 + yoe \div 4 - yoe \div 100 + doy
    IN  era * 146097 + doe - 719468

\* datetime(year, month, day, hour, minute)
datetime(year, month, day, hour, minute) ==
    [day |-> DaysFromCivil(year, month, day), hour |-> hour,
     minute |-> minute, second |-> 0]

\* tests/test_tariff.py: test_cases
test_cases ==
    << datetime(2025, 10, 30, 8, 0),
       datetime(2025, 10, 30, 12, 0),
       datetime(2025, 10, 30, 19, 0),
       datetime(2025, 10, 30, 23, 0),
       datetime(2025, 11, 2, 12, 0),
       datetime(2025, 11, 3, 19, 0) >>

\* timestamp.strftime("%Y-%m-%d")
StrfDate(dt) ==
    LET ymd == CivilFromDays(dt.day)
    IN  ZeroPad(IntToStr(ymd[1]), 4) \o <<"-">> \o ZeroPad(IntToStr(ymd[2]), 2)
        \o <<"-">> \o ZeroPad(IntToStr(ymd[3]), 2)

\* timestamp.strftime("%H:%M:%S")
StrfTime(dt) ==
    ZeroPad(IntToStr(dt.hour), 2) \o <<":">> \o ZeroPad(IntToStr(dt.minute), 2)
    \o <<":">> \o ZeroPad(IntToStr(dt.second), 2)

--------------------------------------------------------------------------
(* services/egauge_service.py: _process_rows *)

\* the keys every record starts with
KeyDate      == <<"d","a","t","e">>
KeyTime      == <<"t","i","m","e">>
KeyTimestamp == <<"t","i","m","e","s","t","a","m","p">>
KeyTariff    == <<"t","a","r","i","f","f">>

\* Python values, tagged with their type
PyStr(s)   == <<"str", s>>
PyInt(n)   == <<"int", n>>
PyFloat(x) == <<"float", x>>
PyNone     == <<"None", 0>>

\* rows[i] - rows[i + 1] of the device library: the difference of the
\* registers the two rows both hold
RowSub(a, b) ==
    [ts   |-> a.ts - b.ts,
     regs |-> [x \in DOMAIN a.regs \cap DOMAIN b.regs |-> a.regs[x] - b.regs[x]]]

\* delta_row.pq_accu(regname) of the device library: the accumulated
\* quantity of a register, nothing for a register the row does not hold
pq_accu(row, regname) ==
    IF regname \in DOMAIN row.regs
    THEN [some |-> TRUE, value |-> row.regs[regname]]
    ELSE [some |-> FALSE, value |-> 0]

\* float(accu.value) if accu else None
AccuValueOrNone(accu) == IF accu.some THEN PyFloat(accu.value) ELSE PyNone

\* float(accu.value) if accu else 0.0
AccuValue(accu) == IF accu.some THEN PyFloat(accu.value) ELSE PyFloat(0)

\* the inner loop: row[register_mapping[regname]] = ... for each register
RECURSIVE AddRegisters(_, _, _, _)
AddRegisters(row, registers, delta_row, register_mapping) ==
    IF registers = <<>> THEN row
    ELSE LET regname  == Head(registers)
             accu     == pq_accu(delta_row, regname)
             col_name == register_mapping[regname]
         IN  AddRegisters(Put(row, col_name, AccuValue(accu)),
                          Tail(registers), delta_row, register_mapping)

\* the body of the outer loop for the pair (rows[i], rows[i + 1]), i from 1
ProcessPair(rows, i, registers, register_mapping) ==
    LET delta_row       == RowSub(rows[i], rows[i + 1])
        timestamp_float == rows[i + 1].ts
        dt              == fromtimestamp(timestamp_float)
        row == (KeyDate      :> PyStr(StrfDate(dt)))
            @@ (KeyTime      :> PyStr(StrfTime(dt)))
            @@ (KeyTimestamp :> PyInt(timestamp_float))
            @@ (KeyTariff    :> PyStr(classify_tariff(dt)))
    IN  AddRegisters(row, registers, delta_row, register_mapping)

\* range(len(rows) - 2)
RangeLenShort(rows) == Len(rows) - 2

\* range(len(rows))
RangeLenWhole(rows) == Len(rows)

\* the number of iterations of the outer loop: range(len(rows) - 1)
RangeLen(rows) == Len(rows) - 1

\* _process_rows; rows[i + 1] past the end of the list raises IndexError
_process_rows(rows, registers, register_mapping) ==
    LET n == RangeLen(rows)
    IN  IF \E i \in 1..n : i + 1 > Len(rows)
        THEN [raised |-> "IndexError", data |-> <<>>]
        ELSE [raised |-> "none",
              data   |-> [i \in 1..n |->
                             ProcessPair(rows, i, registers, register_mapping)]]

--------------------------------------------------------------------------
(* services/egauge_service.py: extract_data *)

\* dict(zip(registers, sanitized_registers))
RECURSIVE DictZip(_, _, _)
DictZip(keys, values, d) ==
    IF keys = <<>> \/ values = <<>> THEN d
    ELSE DictZip(Tail(keys), Tail(values), Put(d, Head(keys), Head(values)))

EmptyDict == [x \in {} |-> 0]

RegisterMapping(registers) ==
    DictZip(registers, make_columns_unique(registers), EmptyDict)

\* columns = registers, without the three fixed labels
NoFixedColumns == <<>>

\* ['Date', 'Time', 'Timestamp']
FixedColumns ==
    << <<"D","a","t","e">>, <<"T","i","m","e">>,
       <<"T","i","m","e","s","t","a","m","p">> >>

\* the validation of the rows received: len(rows) < 2
InsufficientRows(rows) == Len(rows) < 2

\* the failure naming len(rows) - 1, the number of intervals
NotEnoughDataIntervals(rows) ==
    [success |-> FALSE,
     error   |-> [msg |-> "Not enough data in the specified range. Received only",
                  detail |-> IntToStr(Len(rows) - 1)]]

\* the failure result of the validation; detail is the interpolated text
NotEnoughData(rows) ==
    [success |-> FALSE,
     error   |-> [msg |-> "Not enough data in the specified range. Received only",
                  detail |-> IntToStr(Len(rows))]]

\* the texts of the exceptions of the device library and of Python
ErrorText(kind) ==
    CASE kind = "auth"       -> <<"a","u","t","h">>
      [] kind = "data"       -> <<"d","a","t","a">>
      [] kind = "IndexError" -> <<"i","n","d","e","x">>
      [] kind = "regs"       -> <<"r","e","g","s">>
      [] OTHER               -> <<>>

\* a datetime is its whole seconds since the epoch and its microsecond
\* a > b on datetimes
DtGreater(a, b) == a.s > b.s \/ (a.s = b.s /\ a.us > b.us)

\* int(dt.timestamp())
IntTimestamp(dt) == dt.s

\* the end date sent as it was given, whatever the clock says
EndDateAsGiven(end_date, now) == end_date

\* lines 55-58: an end date in the future is replaced by now
AdjustEndDate(end_date, now) ==
    IF DtGreater(end_date, now) THEN now ELSE end_date

\* f"{start_ts}:{delta_seconds}:{end_ts}"
FormatTimeParam(start_ts, delta_seconds, end_ts) ==
    IntToStr(start_ts) \o <<":">> \o IntToStr(delta_seconds) \o <<":">>
                      \o IntToStr(end_ts)

\* lines 47-60: the "time" parameter of the request to the device
TimeParam(req) ==
    LET delta_seconds == req.delta_hours * 3600
        start_ts      == IntTimestamp(req.start_date)
        end_date      == AdjustEndDate(req.end_date, req.now)
        end_ts        == IntTimestamp(end_date)
    IN  FormatTimeParam(start_ts, delta_seconds, end_ts)

\* the outer try without its except clause: the exception leaves the call
NoExcept(outcome) == outcome

\* except Exception as e (lines 114-120): an exception raised anywhere in
\* the outer try becomes the failure result 'Unexpected error: ...'
ExceptException(outcome) ==
    IF "raised" \in DOMAIN outcome
    THEN [success |-> FALSE,
          error   |-> [msg |-> "Unexpected error",
                       detail |-> ErrorText(outcome.raised)]]
    ELSE outcome

\* the body of the outer try (lines 26-112): a result, or the exception
\* that leaves it
extract_data_try(dev) ==
    IF ~dev.auth
    THEN [success |-> FALSE,
          error   |-> [msg |-> "Authentication failed", detail |-> ErrorText("auth")]]
    ELSE IF ~dev.fetch
    THEN [success |-> FALSE,
          error   |-> [msg |-> "Failed to read data from device",
                       detail |-> ErrorText("data")]]
    ELSE IF InsufficientRows(dev.rows)
    THEN NotEnoughData(dev.rows)
    ELSE IF ~dev.regs_ok
    THEN [raised |-> "regs"]
    ELSE LET registers           == dev.regs
             sanitized_registers == make_columns_unique(registers)
             register_mapping    == DictZip(registers, sanitized_registers, EmptyDict)
             processed == _process_rows(dev.rows, registers, register_mapping)
         IN  IF processed.raised # "none"
             THEN [raised |-> processed.raised]
             ELSE [success           |-> TRUE,
                   columns           |-> FixedColumns \o registers,
                   sanitized_columns |-> sanitized_registers,
                   register_mapping  |-> register_mapping,
                   data              |-> processed.data,
                   total_records     |-> Len(processed.data)]

extract_data(dev) == ExceptException(extract_data_try(dev))

--------------------------------------------------------------------------
(* others/extractor.py: extract_month_data *)

\* the error results: a fixed message, or str(e) of an exception
MonthError(msg, kind) == [error |-> [msg |-> msg, detail |-> ErrorText(kind)]]

\* lines 74-82: the record of the pair (rows[i], rows[i + 1]), its values
\* under the raw register names
RECURSIVE MonthRegisters(_, _, _)
MonthRegisters(row_data, regs, delta_row) ==
    IF regs = <<>> THEN row_data
    ELSE LET regname == Head(regs)
             accu    == pq_accu(delta_row, regname)
         IN  MonthRegisters(
                 Put(row_data, regname,
                     IF accu.some THEN PyFloat(accu.value) ELSE PyInt(0)),
                 Tail(regs), delta_row)

MonthPair(rows, i, regs) ==
    LET delta_row == RowSub(rows[i], rows[i + 1])
        dt        == fromtimestamp(rows[i + 1].ts)
        row_data  == (KeyDate      :> PyStr(StrfDate(dt)))
                  @@ (KeyTime      :> PyStr(StrfTime(dt)))
                  @@ (KeyTimestamp :> PyFloat(rows[i + 1].ts))
    IN  MonthRegisters(row_data, regs, delta_row)

\* lines 86-98: the summary of rows[0] - rows[-1]
MonthSummary(rows) ==
    LET delta_total == RowSub(rows[1], rows[Len(rows)])
    IN  [regname \in DOMAIN delta_total.regs |->
             PyFloat(delta_total.regs[regname])]

\* lines 60-118: the processing of the rows and the period summary
MonthProcessing(dev, total_intervals) ==
    IF ~dev.regs_ok
    THEN MonthError("", "regs")
    ELSE IF Len(dev.rows) = 0
    THEN \* rows[0] of the empty list, line 87
         MonthError("", "IndexError")
    ELSE [headers |-> FixedColumns \o dev.regs,
          data    |-> [i \in 1..(Len(dev.rows) - 1) |->
                          MonthPair(dev.rows, i, dev.regs)],
          summary |-> MonthSummary(dev.rows),
          total_intervals |-> total_intervals]

extract_month_data(dev) ==
    IF ~dev.auth
    THEN MonthError("", "auth")
    ELSE IF ~dev.fetch
    THEN MonthError("", "data")
    ELSE LET total_intervals == Len(dev.rows) - 1
         IN  IF total_intervals = 0
             THEN MonthError("Insufficient data", "")
             ELSE MonthProcessing(dev, total_intervals)

--------------------------------------------------------------------------
(* services/supabase_service.py: the client's data table *)

\* the columns every data table has besides id and created_at
KeyTimestampEgauge ==
    <<"t","i","m","e","s","t","a","m","p","_","e","g","a","u","g","e">>
FixedKeys == {KeyDate, KeyTime, KeyTimestampEgauge, KeyTariff}

\* Config.BATCH_INSERT_SIZE
BATCH_INSERT_SIZE == 1000

\* the number held under the conflict key of a row
KeyOf(row) == row[KeyTimestampEgauge][2]

\* ON CONFLICT DO UPDATE: the columns given replace those of the row held
MergeRow(old, new) ==
    [k \in DOMAIN old \cup DOMAIN new |-> IF k \in DOMAIN new THEN new[k] ELSE old[k]]

\* one record written without conflict resolution: always a new row
InsertOne(rows, rec) == Append(rows, rec)

\* one record of upsert(batch, on_conflict='timestamp_egauge'): the row of
\* the same timestamp_egauge is overwritten, a new row is added otherwise
UpsertOne(rows, rec) ==
    IF \E i \in DOMAIN rows : KeyOf(rows[i]) = KeyOf(rec)
    THEN [i \in DOMAIN rows |->
             IF KeyOf(rows[i]) = KeyOf(rec) THEN MergeRow(rows[i], rec) ELSE rows[i]]
    ELSE Append(rows, rec)

RECURSIVE UpsertAll(_, _)
UpsertAll(rows, batch) ==
    IF batch = <<>> THEN rows
    ELSE UpsertAll(UpsertOne(rows, Head(batch)), Tail(batch))

\* .upsert(batch, on_conflict='timestamp_egauge').execute() on a table: one
\* statement, which the store rejects as a whole when it cannot be reached,
\* when a record names a column the table lacks, or when two records of the
\* batch have the same conflict key
Upsert(tbl, batch, reachable) ==
    IF ~reachable
    THEN [ok |-> FALSE, table |-> tbl, error |-> "connection failed"]
    ELSE IF ~tbl.exists
    THEN [ok |-> FALSE, table |-> tbl, error |-> "relation does not exist"]
    ELSE IF \E i \in DOMAIN batch :
                ~(DOMAIN batch[i] \subseteq FixedKeys \cup tbl.columns)
    THEN [ok |-> FALSE, table |-> tbl, error |-> "column not found"]
    ELSE IF \E i, j \in DOMAIN batch :
                i # j /\ KeyOf(batch[i]) = KeyOf(batch[j])
    THEN [ok |-> FALSE, table |-> tbl,
          error |-> "cannot affect row a second time"]
    ELSE [ok |-> TRUE, table |-> [tbl EXCEPT !.rows = UpsertAll(tbl.rows, batch)],
          error |-> ""]

\* table_exists: the probe select succeeded
table_exists(tbl, reachable) == tbl.exists /\ reachable

\* data[i:], the rest of the list in one batch
BatchRest(data, i, size) == SubSeq(data, i + 1, Len(data))

\* data[i:i + batch_size], i counted from 0, size the batch size
Batch(data, i, size) ==
    SubSeq(data, i + 1, IF i + size < Len(data) THEN i + size ELSE Len(data))

--------------------------------------------------------------------------
(* routes/data.py: extract_data *)

\* the row prepared for insertion from one record of the extraction
PrepareRow(row) ==
    [k \in {KeyDate, KeyTime, KeyTimestampEgauge, KeyTariff}
           \cup (DOMAIN row \ {KeyDate, KeyTime, KeyTimestamp, KeyTariff}) |->
        IF k = KeyTimestampEgauge THEN row[KeyTimestamp] ELSE row[k]]

PrepareRows(data) == [i \in DOMAIN data |-> PrepareRow(data[i])]

\* the statement without the columns of the registers
generate_table_sql_fixed_only(table_name, sanitized_columns) ==
    [table_name |-> table_name,
     columns_sql |->
         << <<"id", "UUID PRIMARY KEY DEFAULT gen_random_uuid()">>,
            <<"date", "DATE NOT NULL">>,
            <<"time", "TIME NOT NULL">>,
            <<"timestamp_egauge", "BIGINT NOT NULL">>,
            <<"tariff", "VARCHAR(20)">>,
            <<"created_at", "TIMESTAMP WITH TIME ZONE DEFAULT NOW()">> >>,
     unique |-> "timestamp_egauge"]

\* generate_table_sql: the statement, as the table name, the column
\* definitions in order and the unique constraint
generate_table_sql(table_name, sanitized_columns) ==
    [table_name |-> table_name,
     columns_sql |->
         << <<"id", "UUID PRIMARY KEY DEFAULT gen_random_uuid()">>,
            <<"date", "DATE NOT NULL">>,
            <<"time", "TIME NOT NULL">>,
            <<"timestamp_egauge", "BIGINT NOT NULL">>,
            <<"tariff", "VARCHAR(20)">>,
            <<"created_at", "TIMESTAMP WITH TIME ZONE DEFAULT NOW()">> >>
         \o [i \in DOMAIN sanitized_columns |-> <<sanitized_columns[i], "FLOAT">>],
     unique |-> "timestamp_egauge"]

\* client['data_table'] of the one client of the model
DataTable == <<"c","l","i","e","n","t","_","1">>

--------------------------------------------------------------------------
(* Inputs *)

\* the characters the sanitizers are tried on: a lower-case letter, an
\* upper-case letter, a digit, the underscore, the two characters given a
\* replacement of their own, and one other special character
Alphabet == {"a", "B", "1", "_", "+", "-", " "}

StringsUpTo(chars, n) == UNION { [1..k -> chars] : k \in 0..n }

\* register labels tried in lists: labels that sanitize to the same base,
\* labels whose base is another base's suffixed form, a label that
\* sanitizes to the empty string
Labels ==
    { <<"a">>, <<"A">>, <<"a","_","2">>, <<"a","-","2">>,
      <<"a","_","2","_","2">>, <<"(">>, <<"a","+">> }

ListsUpTo(elems, n) == UNION { [1..k -> elems] : k \in 0..n }

\* the week 2025-10-30 (Thursday) .. 2025-11-05 (Wednesday), as day numbers
SampleWeek == 20391..20397

DateTimes ==
    [day : SampleWeek, hour : 0..23, minute : 0..59, second : {0, 59}]

\* the register labels a device declares: two labels with one sanitized
\* form, and a label whose sanitized form is the key 'timestamp'
RegLabels == { <<"A">>, <<"a">>, <<"T","i","m","e","s","t","a","m","p">> }

\* the register lists of the devices the /extract route is tried on
RouteRegisters ==
    { <<>>, << <<"A">> >>, << <<"T","i","m","e","s","t","a","m","p">> >> }

\* reading times: Thursday 2025-10-30 08:00, 12:00 and 19:00, and
\* Saturday 2025-11-01 12:00
TsSamples == {1761811200, 1761825600, 1761850800, 1761998400}

\* cumulative register values
CumulValues == {1, 3}

\* the time stamps of n rows, newest first
TsSeqs(n) ==
    { t \in [1..n -> TsSamples] : \A i \in 1..(n - 1) : t[i] > t[i + 1] }

\* the registers one row holds: a value for some of the labels
RegMaps(labels) == UNION { [held -> CumulValues] : held \in SUBSET labels }

\* a device that answers with the registers regs and one row for each time
\* stamp of t, the i-th holding the registers r[i]
DeviceOf(regs, t, r) ==
    [auth |-> TRUE, fetch |-> TRUE, regs_ok |-> TRUE, regs |-> regs,
     rows |-> [i \in DOMAIN t |-> [ts |-> t[i], regs |-> r[i]]]]

\* dev is a device that answers with one of the register lists regLists
\* and at most maxRows rows
Answering(dev, regLists, maxRows) ==
    \E regs \in regLists, n \in 0..maxRows :
        \E t \in TsSeqs(n), r \in [1..n -> RegMaps(Range(regs))] :
            dev = DeviceOf(regs, t, r)

\* a device that cannot be connected to, and one that cannot be read
Failing ==
    { [auth |-> FALSE, fetch |-> FALSE, regs_ok |-> TRUE, regs |-> <<>>,
       rows |-> <<>>],
      [auth |-> TRUE,  fetch |-> FALSE, regs_ok |-> TRUE, regs |-> <<>>,
       rows |-> <<>>] }

\* dev is a device that answers with at most maxRows rows and whose
\* answer the device library cannot read the register list of: ret.regs
\* (line 89) raises
Unreadable(dev, maxRows) ==
    \E n \in 0..maxRows :
        \E t \in TsSeqs(n), r \in [1..n -> RegMaps({<<"A">>})] :
            dev = [DeviceOf(<<>>, t, r) EXCEPT !.regs_ok = FALSE]

\* the data table before the first extraction, or after earlier ones: not
\* there; there with the columns cols and no row; there with one row
\* written for one of the reading times by an extraction without registers
StaleRow(ts) ==
    PrepareRow(ProcessPair(<<[ts |-> ts, regs |-> EmptyDict],
                             [ts |-> ts, regs |-> EmptyDict]>>,
                           1, <<>>, EmptyDict))

InitialTables(cols) ==
    { [exists |-> FALSE, columns |-> {}, rows |-> <<>>] }
    \cup { [exists |-> TRUE, columns |-> c, rows |-> <<>>] : c \in {{}, cols} }
    \cup { [exists |-> TRUE, columns |-> cols, rows |-> <<StaleRow(ts)>>] :
              ts \in TsSamples }

\* the clock during a call: 2025-11-05 00:00:00, and half a second later
Clock == { [s |-> 1762300800, us |-> 0], [s |-> 1762300800, us |-> 500000] }

\* start dates: two days and one day before the clock's day
StartDates == { [s |-> 1762128000, us |-> 0], [s |-> 1762214400, us |-> 0] }

\* end dates: the day before the clock's day, that day at 00:00:00 and half
\* a second later, and the day after
EndDates ==
    { [s |-> 1762214400, us |-> 0], [s |-> 1762300800, us |-> 0],
      [s |-> 1762300800, us |-> 500000], [s |-> 1762387200, us |-> 0] }

\* the requests extract_data is tried on
Requests ==
    [start_date : StartDates, end_date : EndDates, now : Clock,
     delta_hours : {1, 24}]

\* the request of the specifications that vary the device only
SampleRequest ==
    [start_date |-> [s |-> 1762128000, us |-> 0],
     end_date   |-> [s |-> 1762214400, us |-> 0],
     now        |-> [s |-> 1762300800, us |-> 0],
     delta_hours |-> 1]

NoTimeParam == <<>>
NoResponse == [success |-> FALSE, status |-> 0, error |-> ""]
NoTable   == [exists |-> FALSE, columns |-> {}, rows |-> <<>>]
NoDevice  == [auth |-> FALSE, fetch |-> FALSE, regs_ok |-> TRUE, regs |-> <<>>,
              rows |-> <<>>]
NoResult  == [success |-> FALSE, error |-> [msg |-> "", detail |-> <<>>]]
NoReduced == [raised |-> "none", data |-> <<>>]

--------------------------------------------------------------------------
(* The sanitizers applied to a string, and again to their own result *)

IdleSan  == name = <<>> /\ column = <<>> /\ table = <<>>
IdleUniq == columns = <<>> /\ unique_columns = <<>>
IdleTar  == timestamp = [day |-> 0, hour |-> 0, minute |-> 0, second |-> 0]
            /\ tariff = ""
IdleExt  == device = NoDevice /\ result = NoResult /\ reduced = NoReduced
IdleIns  == /\ batch_size = BATCH_INSERT_SIZE
            /\ submitted = <<>>
            /\ clients = {}
IdleRng  == request = SampleRequest /\ time_param = NoTimeParam
IdleRte  == /\ store = NoTable
            /\ client_columns = PyNone
            /\ data_to_insert = <<>>
            /\ records_inserted = 0
            /\ response = NoResponse
            /\ created = FALSE

InitSanitize ==
    /\ pc = "ready"
    /\ name \in StringsUpTo(Alphabet, MaxLen)
    /\ column = <<>>
    /\ table = <<>>
    /\ IdleUniq /\ IdleTar /\ IdleExt /\ IdleRte /\ IdleRng /\ IdleIns

SanitizeColumnName ==
    /\ pc = "ready"
    /\ column' = sanitize_column_name(name)
    /\ pc' = "column"
    /\ UNCHANGED <<clients, insVars, rngVars, name, table, uniqVars,
                   tarVars, extVars, rteVars>>

SanitizeColumnNameAgain ==
    /\ pc = "column"
    /\ name' = column
    /\ column' = sanitize_column_name(column)
    /\ pc' = "column_again"
    /\ UNCHANGED <<clients, insVars, rngVars, table, uniqVars, tarVars,
                   extVars, rteVars>>

SanitizeTableName ==
    /\ pc = "ready"
    /\ table' = sanitize_table_name(name)
    /\ pc' = "table"
    /\ UNCHANGED <<clients, insVars, rngVars, name, column, uniqVars,
                   tarVars, extVars, rteVars>>

SanitizeTableNameAgain ==
    /\ pc = "table"
    /\ name' = table
    /\ table' = sanitize_table_name(table)
    /\ pc' = "table_again"
    /\ UNCHANGED <<clients, insVars, rngVars, column, uniqVars, tarVars,
                   extVars, rteVars>>

NextSanitize ==
    \/ SanitizeColumnName
    \/ SanitizeColumnNameAgain
    \/ SanitizeTableName
    \/ SanitizeTableNameAgain

SpecSanitize == InitSanitize /\ [][NextSanitize]_vars

--------------------------------------------------------------------------
(* make_columns_unique applied to a list of labels *)

InitUnique ==
    /\ pc = "ready"
    /\ columns \in ListsUpTo(Labels, MaxCols)
    /\ unique_columns = <<>>
    /\ IdleSan /\ IdleTar /\ IdleExt /\ IdleRte /\ IdleRng /\ IdleIns

MakeColumnsUnique ==
    /\ pc = "ready"
    /\ unique_columns' = make_columns_unique(columns)
    /\ pc' = "done"
    /\ UNCHANGED <<clients, insVars, rngVars, columns, sanVars, tarVars,
                   extVars, rteVars>>

NextUnique == MakeColumnsUnique

SpecUnique == InitUnique /\ [][NextUnique]_vars

--------------------------------------------------------------------------
(* classify_tariff applied to a datetime *)

InitTariff ==
    /\ pc = "ready"
    /\ timestamp \in DateTimes
    /\ tariff = ""
    /\ IdleSan /\ IdleUniq /\ IdleExt /\ IdleRte /\ IdleRng /\ IdleIns

ClassifyTariff ==
    /\ pc = "ready"
    /\ tariff' = classify_tariff(timestamp)
    /\ pc' = "done"
    /\ UNCHANGED <<clients, insVars, rngVars, timestamp, sanVars, uniqVars,
                   extVars, rteVars>>

NextTariff == ClassifyTariff

SpecTariff == InitTariff /\ [][NextTariff]_vars

--------------------------------------------------------------------------
(* extract_data, and _process_rows alone, applied to a device's answer *)

InitExtract ==
    /\ pc = "ready"
    /\ \/ device \in Failing
       \/ Answering(device, ListsUpTo(RegLabels, MaxRegs), MaxRows)
    /\ result = NoResult
    /\ reduced = NoReduced
    /\ IdleSan /\ IdleUniq /\ IdleTar /\ IdleRte /\ IdleRng /\ IdleIns

ExtractData ==
    /\ pc = "ready"
    /\ result' = extract_data(device)
    /\ time_param' = IF device.auth THEN TimeParam(request) ELSE time_param
    /\ pc' = "extracted"
    /\ UNCHANGED <<clients, insVars, request, device, reduced, sanVars,
                   uniqVars, tarVars, rteVars>>

ProcessRows ==
    /\ pc = "ready"
    /\ reduced' = _process_rows(device.rows, device.regs,
                                RegisterMapping(device.regs))
    /\ pc' = "processed"
    /\ UNCHANGED <<clients, insVars, rngVars, device, result, sanVars,
                   uniqVars, tarVars, rteVars>>

NextExtract == ExtractData \/ ProcessRows

SpecExtract == InitExtract /\ [][NextExtract]_vars

--------------------------------------------------------------------------
(* extract_data applied to every kind of device: one that cannot be       *)
(* connected to, one that cannot be read, one whose answer makes the      *)
(* processing raise, one that answers                                     *)

InitFaults ==
    /\ pc = "ready"
    /\ \/ device \in Failing
       \/ Unreadable(device, MaxRows)
       \/ Answering(device, RouteRegisters, MaxRows)
    /\ result = NoResult
    /\ reduced = NoReduced
    /\ IdleSan /\ IdleUniq /\ IdleTar /\ IdleRte /\ IdleRng /\ IdleIns

NextFaults == ExtractData

SpecFaults == InitFaults /\ [][NextFaults]_vars

--------------------------------------------------------------------------
(* extract_month_data applied to every kind of device *)

InitMonth ==
    /\ pc = "ready"
    /\ \/ device \in Failing
       \/ Unreadable(device, MaxRows)
       \/ Answering(device, RouteRegisters, MaxRows)
    /\ result = NoResult
    /\ reduced = NoReduced
    /\ IdleSan /\ IdleUniq /\ IdleTar /\ IdleRte /\ IdleRng /\ IdleIns

ExtractMonthData ==
    /\ pc = "ready"
    /\ result' = extract_month_data(device)
    /\ pc' = "month_extracted"
    /\ UNCHANGED <<clients, insVars, rngVars, device, reduced, sanVars,
                   uniqVars, tarVars, rteVars>>

NextMonth == ExtractMonthData

SpecMonth == InitMonth /\ [][NextMonth]_vars

--------------------------------------------------------------------------
(* extract_data applied to a date range, at some time of the clock *)

InitRange ==
    /\ pc = "ready"
    /\ request \in Requests
    /\ time_param = NoTimeParam
    /\ \/ device \in Failing
       \/ Answering(device, {<<>>}, MaxRows)
    /\ result = NoResult
    /\ reduced = NoReduced
    /\ IdleSan /\ IdleUniq /\ IdleTar /\ IdleRte /\ IdleIns

NextRange == ExtractData

SpecRange == InitRange /\ [][NextRange]_vars

--------------------------------------------------------------------------
(* routes/data.py: POST /extract for the one client, one request at a    *)
(* time, against a device whose answer does not change                    *)

InitRoute ==
    /\ pc = "idle"
    /\ \/ device \in Failing
       \/ Answering(device, RouteRegisters, MaxRows)
    /\ result = NoResult
    /\ reduced = NoReduced
    /\ store \in InitialTables(Range(make_columns_unique(device.regs)))
    /\ client_columns = PyNone
    /\ data_to_insert = <<>>
    /\ records_inserted = 0
    /\ response = NoResponse
    /\ created = FALSE
    /\ IdleSan /\ IdleUniq /\ IdleTar /\ IdleRng /\ IdleIns

\* return jsonify(...): the request is answered and its locals are gone
Respond(r) == response' = r /\ created' = FALSE

\* lines 21-66: a request that is refused before the device is asked
RefuseRequest ==
    /\ pc = "idle"
    /\ \E refusal \in { [status |-> 400,
                         error |-> "client_id, start_date and end_date are required"],
                        [status |-> 400, error |-> "invalid date range"],
                        [status |-> 404, error |-> "Client not found"] } :
           Respond([success |-> FALSE, status |-> refusal.status,
                    error |-> refusal.error])
    /\ UNCHANGED <<clients, insVars, rngVars, pc, sanVars, uniqVars,
                   tarVars, extVars, store, client_columns, data_to_insert,
                   records_inserted>>

\* lines 58-72: the device is asked; a failed extraction is the response
ExtractFromDevice ==
    /\ pc = "idle"
    /\ result' = extract_data(device)
    /\ time_param' = IF device.auth THEN TimeParam(request) ELSE time_param
    /\ IF result'.success
       THEN pc' = "table_exists" /\ UNCHANGED <<response, created>>
       ELSE /\ pc' = "idle"
            /\ Respond([success |-> FALSE, status |-> 400,
                        error |-> result'.error])
    /\ UNCHANGED <<clients, insVars, request, device, reduced, sanVars,
                   uniqVars, tarVars, store, client_columns, data_to_insert,
                   records_inserted>>

\* lines 107-118: data_to_insert is prepared, insert_data_batch starts
StartInsert ==
    /\ pc' = "insert"
    /\ data_to_insert' = PrepareRows(result.data)
    /\ batch_size' = BATCH_INSERT_SIZE
    /\ records_inserted' = 0
    /\ submitted' = <<>>

\* lines 77, 104: the table is found
TableFound ==
    /\ pc = "table_exists"
    /\ \E reachable \in BOOLEAN : table_exists(store, reachable)
    /\ StartInsert
    /\ UNCHANGED <<clients, rngVars, sanVars, uniqVars, tarVars, extVars,
                   store, client_columns, response, created>>

\* lines 77-81: the table is not found, by the probe's answer or its failure
TableNotFound ==
    /\ pc = "table_exists"
    /\ \E reachable \in BOOLEAN : ~table_exists(store, reachable)
    /\ pc' = "create"
    /\ UNCHANGED <<clients, insVars, rngVars, sanVars, uniqVars, tarVars,
                   extVars, rteVars>>

\* lines 81, 103: create_dynamic_table reports success
TableCreated ==
    /\ pc = "create"
    /\ store' = IF store.exists THEN store
                ELSE [exists  |-> TRUE,
                      columns |-> Range(result.sanitized_columns),
                      rows    |-> <<>>]
    /\ created' = ~store.exists
    /\ StartInsert
    /\ UNCHANGED <<clients, rngVars, sanVars, uniqVars, tarVars, extVars,
                   client_columns, response>>

\* lines 83-101: create_dynamic_table reports failure
TableNotCreated ==
    /\ pc = "create"
    /\ pc' = "idle"
    /\ Respond([success |-> FALSE, status |-> 500,
                error |-> "Failed to create table automatically",
                sql_to_run |-> generate_table_sql(DataTable,
                                                  result.sanitized_columns)])
    /\ UNCHANGED <<clients, insVars, rngVars, sanVars, uniqVars, tarVars,
                   extVars, store, client_columns, data_to_insert,
                   records_inserted>>

\* one turn of the loop with the upsert's exception swallowed: the loop
\* goes on to the next batch
InsertBatchContinue ==
    /\ pc = "insert"
    /\ records_inserted < Len(data_to_insert)
    /\ \E reachable \in BOOLEAN :
           LET batch == Batch(data_to_insert, records_inserted, batch_size)
               up    == Upsert(store, batch, reachable)
           IN  /\ submitted' = Append(submitted, batch)
               /\ store' = up.table
               /\ records_inserted' = records_inserted + Len(batch)
    /\ UNCHANGED <<clients, pc, response, created, batch_size, rngVars,
                   sanVars, uniqVars, tarVars, extVars, client_columns,
                   data_to_insert>>

\* insert_data_batch, one turn of its loop: the next batch is upserted
InsertBatch ==
    /\ pc = "insert"
    /\ records_inserted < Len(data_to_insert)
    /\ \E reachable \in BOOLEAN :
           LET batch == Batch(data_to_insert, records_inserted, batch_size)
               up    == Upsert(store, batch, reachable)
           IN  /\ submitted' = Append(submitted, batch)
               /\ IF up.ok
                  THEN /\ store' = up.table
                       /\ records_inserted' = records_inserted + Len(batch)
                       /\ UNCHANGED <<pc, response, created>>
                  ELSE \* lines 128-139: the exception leaves
                       \* insert_data_batch
                       /\ pc' = "idle"
                       /\ Respond([success |-> FALSE, status |-> 500,
                                   error |-> "Error inserting data",
                                   error_message |-> up.error,
                                   sql_to_run |->
                                       generate_table_sql(
                                           DataTable, result.sanitized_columns)])
                       /\ UNCHANGED <<store, records_inserted>>
    /\ UNCHANGED <<clients, batch_size, rngVars, sanVars, uniqVars, tarVars,
                   extVars, client_columns, data_to_insert>>

\* lines 141-160: insert_data_batch has returned; the client's columns are
\* updated and the request is answered
UpdateClientAndRespond ==
    /\ pc = "insert"
    /\ records_inserted >= Len(data_to_insert)
    /\ pc' = "idle"
    /\ \E updated \in BOOLEAN, reachable \in BOOLEAN :
           IF updated
           THEN /\ client_columns' = result.columns
                /\ Respond([success |-> TRUE, status |-> 200,
                            records_inserted |-> records_inserted,
                            columns |-> result.columns,
                            table_created |-> ~table_exists(store, reachable)])
           ELSE \* lines 162-168: update_client raised
                /\ UNCHANGED client_columns
                /\ Respond([success |-> FALSE, status |-> 500,
                            error |-> "Server error"])
    /\ UNCHANGED <<clients, insVars, rngVars, sanVars, uniqVars, tarVars,
                   extVars, store, data_to_insert, records_inserted>>

NextRoute ==
    \/ RefuseRequest
    \/ ExtractFromDevice
    \/ TableFound
    \/ TableNotFound
    \/ TableCreated
    \/ TableNotCreated
    \/ InsertBatch
    \/ UpdateClientAndRespond

SpecRoute == InitRoute /\ [][NextRoute]_vars

--------------------------------------------------------------------------
(* insert_data_batch given the first records of an extraction and a batch *)
(* size, followed by the rest of the route                                *)

\* the data table of an extraction without registers: empty, or holding a
\* row written earlier for the first reading time
BatchTables ==
    { [exists |-> TRUE, columns |-> {}, rows |-> <<>>],
      [exists |-> TRUE, columns |-> {}, rows |-> <<StaleRow(1761811200)>>] }

InitBatch ==
    /\ pc = "insert"
    /\ Answering(device, {<<>>}, MaxRecords + 1)
    /\ result = extract_data(device)
    /\ result.success
    /\ reduced = NoReduced
    /\ store \in BatchTables
    /\ client_columns \in {PyNone, FixedColumns}
    /\ \E k \in 0..Len(result.data) :
           data_to_insert = SubSeq(PrepareRows(result.data), 1, k)
    /\ batch_size \in 1..MaxBatch
    /\ records_inserted = 0
    /\ submitted = <<>>
    /\ response = NoResponse
    /\ created = FALSE
    /\ clients = {}
    /\ IdleSan /\ IdleUniq /\ IdleTar /\ IdleRng

NextBatch ==
    \/ InsertBatch
    \/ UpdateClientAndRespond

SpecBatch == InitBatch /\ [][NextBatch]_vars

--------------------------------------------------------------------------
(* routes/clients.py: create, update and delete requests, one at a time   *)

\* the names given to clients: two names with one table name, a name that
\* starts with a digit, and another name
ClientNames == { <<"a">>, <<"A">>, <<"1">>, <<"b">> }

\* the keys the store gives to client records
ClientIds == 1..MaxClients

\* client_exists(name=name, data_table=data_table): some record has the
\* name or the table
client_exists(rows, n, data_table) ==
    \E c \in rows : c.name = n \/ c.data_table = data_table

\* get_client_by_id: the records of that id
ClientsById(rows, client_id) == { c \in rows : c.id = client_id }

InitClients ==
    /\ pc = "idle"
    /\ clients = {}
    /\ batch_size = BATCH_INSERT_SIZE
    /\ submitted = <<>>
    /\ IdleSan /\ IdleUniq /\ IdleTar /\ IdleExt /\ IdleRte /\ IdleRng

\* POST /clients
CreateClient ==
    /\ pc = "idle"
    /\ \E n \in ClientNames \cup {<<>>} :
           IF n = <<>>
           THEN /\ response' = [success |-> FALSE, status |-> 400,
                                error |-> "Name and URL are required"]
                /\ UNCHANGED clients
           ELSE LET data_table == sanitize_table_name(n)
                IN  IF client_exists(clients, n, data_table)
                    THEN /\ response' =
                                [success |-> FALSE, status |-> 400,
                                 error |-> "A client with that name or table already exists"]
                         /\ UNCHANGED clients
                    ELSE \E id \in ClientIds :
                             /\ ClientsById(clients, id) = {}
                             /\ clients' = clients \cup
                                    {[id |-> id, name |-> n,
                                      data_table |-> data_table]}
                             /\ response' = [success |-> TRUE, status |-> 200,
                                             error |-> ""]
    /\ UNCHANGED <<pc, insVars, rngVars, sanVars, uniqVars, tarVars, extVars,
                   store, client_columns, data_to_insert, records_inserted,
                   created>>

\* PUT /clients/<client_id>: the name, the url, both or neither is given
UpdateClient ==
    /\ pc = "idle"
    /\ \E client_id \in ClientIds, given \in SUBSET {"name", "url"},
          n \in ClientNames :
           IF given = {}
           THEN /\ response' = [success |-> FALSE, status |-> 400,
                                error |-> "No data to update"]
                /\ UNCHANGED clients
           ELSE IF ClientsById(clients, client_id) = {}
           THEN \* response.data[0] of an update that matched no row
                /\ response' = [success |-> FALSE, status |-> 500,
                                error |-> "list index out of range"]
                /\ UNCHANGED clients
           ELSE /\ clients' =
                       { IF c.id = client_id /\ "name" \in given
                         THEN [c EXCEPT !.name = n] ELSE c : c \in clients }
                /\ response' = [success |-> TRUE, status |-> 200, error |-> ""]
    /\ UNCHANGED <<pc, insVars, rngVars, sanVars, uniqVars, tarVars, extVars,
                   store, client_columns, data_to_insert, records_inserted,
                   created>>

\* DELETE /clients/<client_id>
DeleteClient ==
    /\ pc = "idle"
    /\ \E client_id \in ClientIds :
           IF ClientsById(clients, client_id) = {}
           THEN /\ response' = [success |-> FALSE, status |-> 404,
                                error |-> "Client not found"]
                /\ UNCHANGED clients
           ELSE /\ clients' = clients \ ClientsById(clients, client_id)
                /\ response' = [success |-> TRUE, status |-> 200, error |-> ""]
    /\ UNCHANGED <<pc, insVars, rngVars, sanVars, uniqVars, tarVars, extVars,
                   store, client_columns, data_to_insert, records_inserted,
                   created>>

NextClients ==
    \/ CreateClient
    \/ UpdateClient
    \/ DeleteClient

SpecClients == InitClients /\ [][NextClients]_vars

--------------------------------------------------------------------------
(* Claims about make_columns_unique *)

\* the sanitized base of the i-th input label
BaseOf(i) == sanitize_column_name(columns[i])

\* how many labels up to and including the i-th sanitize to the i-th's base
Occurrence(i) == Cardinality({ j \in 1..i : BaseOf(j) = BaseOf(i) })

\* the identifiers given to the labels before the i-th
AssignedBefore(i) == { unique_columns[j] : j \in 1..(i - 1) }

\* the k-th candidate of a base: the base itself, then base_2, base_3, ...
Candidate(b, k) == IF k = 1 THEN b ELSE Suffixed(b, k)

\* C3: make_columns_unique returns a list of the same length as its input,
\* in which no identifier occurs twice, and whose i-th entry is the
\* sanitized i-th label, bare or with a numeric suffix _k (k >= 2).
C3_UniqueSameLengthSameOrder ==
    pc = "done" =>
        /\ Len(unique_columns) = Len(columns)
        /\ \A i, j \in DOMAIN unique_columns :
               i # j => unique_columns[i] # unique_columns[j]
        /\ \A i \in DOMAIN unique_columns :
               \E k \in 1..(Len(columns) + 1) :
                   unique_columns[i] = Candidate(BaseOf(i), k)

\* C3 witness: three labels with one sanitized base were made unique
C3_Witness ==
    /\ pc = "done"
    /\ Len(columns) = 3
    /\ \A i \in 1..3 : BaseOf(i) = <<"a">>
    /\ columns[1] # columns[2]

\* C4 as stated: the k-th label of a sanitized base b is given b (k = 1) or
\* b_k, whatever the labels of the other bases are.
C4_Original ==
    pc = "done" =>
        \A i \in DOMAIN columns :
            unique_columns[i] = Candidate(BaseOf(i), Occurrence(i))

\* C4 amended: each label is given the first of b, b_2, b_3, ... that no
\* earlier label was given; that is b for the first label of base b and b_k
\* for the k-th whenever none of b, b_2, .., b_k was given to an earlier
\* label of another base.
C4_FirstFreeCandidate ==
    pc = "done" =>
        \A i \in DOMAIN columns :
            /\ \E k \in 1..(Len(columns) + 1) :
                   /\ unique_columns[i] = Candidate(BaseOf(i), k)
                   /\ \A m \in 1..(k - 1) :
                          Candidate(BaseOf(i), m) \in AssignedBefore(i)
                   /\ Candidate(BaseOf(i), k) \notin AssignedBefore(i)
            /\ (\A j \in 1..(i - 1) :
                    BaseOf(j) # BaseOf(i) =>
                        \A m \in 1..Occurrence(i) :
                            unique_columns[j] # Candidate(BaseOf(i), m))
               => unique_columns[i] = Candidate(BaseOf(i), Occurrence(i))

\* C4 witness: the second label of base a finds a_2 taken by another base
\* and is given a_3
C4_Witness ==
    /\ pc = "done"
    /\ columns = << <<"a","_","2">>, <<"a">>, <<"A">> >>
    /\ unique_columns = << <<"a","_","2">>, <<"a">>, <<"a","_","3">> >>

--------------------------------------------------------------------------
(* Claims about classify_tariff *)

\* the minute of the day of a datetime
MinuteOfDay(dt) == dt.hour * 60 + dt.minute

\* the schedule as the tariff tables state it, by weekday and minute
ReferenceTariff(weekday, m) ==
    IF weekday \in {5, 6} THEN "Base"
    ELSE IF 18 * 60 <= m /\ m < 22 * 60 THEN "Punta"
    ELSE IF (6 * 60 <= m /\ m < 10 * 60) \/ (22 * 60 <= m /\ m <= 1439)
         THEN "Intermedio"
    ELSE "Base"

\* C5: classify_tariff gives every weekday and minute of the day exactly the
\* category of the reference schedule: Base on Saturday and Sunday; on
\* Monday-Friday Punta on [18:00, 22:00), Intermedio on [06:00, 10:00) and
\* from 22:00 to the end of the day, Base otherwise, 00:00 included.
C5_TariffSchedule ==
    pc = "done" =>
        /\ tariff \in {"Base", "Intermedio", "Punta"}
        /\ tariff = ReferenceTariff(Weekday(timestamp), MinuteOfDay(timestamp))

\* C5 witness: the last second of a Friday is classified Intermedio
C5_Witness ==
    /\ pc = "done"
    /\ Weekday(timestamp) = 4
    /\ timestamp.hour = 23 /\ timestamp.minute = 59 /\ timestamp.second = 59
    /\ tariff = "Intermedio"

--------------------------------------------------------------------------
(* Claims about the sanitizers *)

\* C10: sanitizing is idempotent: sanitize_column_name applied to its own
\* result returns it unchanged, and so does sanitize_table_name.
C10_SanitizeIdempotent ==
    /\ pc = "column_again" => column = name
    /\ pc = "table_again" => table = name

\* C10 witness: a table name that was given the data_ prefix was sanitized
\* again
C10_Witness ==
    /\ pc = "table_again"
    /\ name = <<"d","a","t","a","_","1">>

--------------------------------------------------------------------------
(* Claims about _process_rows and extract_data *)

\* the device answered with at least two rows
Answered == device.auth /\ device.fetch
EnoughRows == Len(device.rows) >= 2

\* the column given to a declared register
ColumnOf(regname) == RegisterMapping(device.regs)[regname]

\* a register both readings of the i-th pair hold
InBoth(i, regname) ==
    /\ regname \in DOMAIN device.rows[i].regs
    /\ regname \in DOMAIN device.rows[i + 1].regs

\* C1: on n >= 2 readings _process_rows returns n - 1 records, the i-th the
\* one built from the pair (readings[i], readings[i+1]) and so stamped with
\* the time of readings[i+1] unless a register column took that key, and
\* extract_data reports total_records = n - 1.
C1_ReducerCount ==
    /\ (pc = "processed" /\ EnoughRows) =>
           /\ reduced.raised = "none"
           /\ Len(reduced.data) = Len(device.rows) - 1
           /\ \A i \in DOMAIN reduced.data :
                  /\ reduced.data[i] =
                         ProcessPair(device.rows, i, device.regs,
                                     RegisterMapping(device.regs))
                  /\ (\A x \in Range(device.regs) : ColumnOf(x) # KeyTimestamp)
                         => reduced.data[i][KeyTimestamp]
                                = PyInt(device.rows[i + 1].ts)
    /\ (pc = "extracted" /\ Answered /\ EnoughRows) =>
           /\ result.success
           /\ Len(result.data) = Len(device.rows) - 1
           /\ result.total_records = Len(device.rows) - 1

\* C1 witness: three rows were extracted into two records
C1_Witness ==
    /\ pc = "extracted"
    /\ Len(device.rows) = 3
    /\ result.success
    /\ result.total_records = 2

\* C2 as stated: every record carries the time stamp of the pair's second
\* reading, the tariff of that time, and for every declared register held
\* by both readings the difference first minus second, negative or not.
C2_Original ==
    (pc = "processed" /\ EnoughRows) =>
        \A i \in DOMAIN reduced.data :
            /\ reduced.data[i][KeyTimestamp] = PyInt(device.rows[i + 1].ts)
            /\ reduced.data[i][KeyTariff] =
                   PyStr(classify_tariff(fromtimestamp(device.rows[i + 1].ts)))
            /\ \A x \in Range(device.regs) :
                   InBoth(i, x) =>
                       reduced.data[i][ColumnOf(x)] =
                           PyFloat(device.rows[i].regs[x]
                                   - device.rows[i + 1].regs[x])

\* C7 as stated: on fewer than two readings _process_rows signals an
\* InsufficientDataError.
C7_Original ==
    (pc = "processed" /\ ~EnoughRows) =>
        reduced.raised = "InsufficientDataError"

\* C7 amended: on fewer than two readings _process_rows signals nothing and
\* returns the empty list; it is extract_data that answers fewer than two
\* rows with the insufficient-data failure.
C7_EmptyListNoSignal ==
    /\ (pc = "processed" /\ ~EnoughRows) =>
           /\ reduced.raised = "none"
           /\ reduced.data = <<>>
    /\ (pc = "extracted" /\ Answered /\ ~EnoughRows) =>
           /\ ~result.success
           /\ result.error.msg =
                  "Not enough data in the specified range. Received only"

\* C7 witness: _process_rows was applied to a single reading of a device
\* that declares a register
C7_Witness ==
    /\ pc = "processed"
    /\ Len(device.rows) = 1
    /\ device.regs # <<>>
    /\ reduced.data = <<>>

\* C8: when the device returns zero rows or one row, extract_data returns a
\* failure result whose message names the number of rows received and
\* which holds no register mapping, no columns and no records.
C8_InsufficientRowsResult ==
    (pc = "extracted" /\ Answered /\ ~EnoughRows) =>
        /\ ~result.success
        /\ Len(device.rows) = 0 => result.error.detail = <<"0">>
        /\ Len(device.rows) = 1 => result.error.detail = <<"1">>
        /\ DOMAIN result = {"success", "error"}

\* C8 witness: a device that declares registers returned one row
C8_Witness ==
    /\ pc = "extracted"
    /\ Answered
    /\ Len(device.rows) = 1
    /\ device.regs # <<>>
    /\ ~result.success

\* C9: a declared register that one or both readings of a pair do not hold
\* gets the value 0.0 in that pair's record, no error is raised, and the
\* registers both readings hold keep their difference.
C9_MissingRegisterZero ==
    (pc = "processed" /\ EnoughRows) =>
        /\ reduced.raised = "none"
        /\ \A i \in DOMAIN reduced.data :
               \A x \in Range(device.regs) :
                   reduced.data[i][ColumnOf(x)] =
                       IF InBoth(i, x)
                       THEN PyFloat(device.rows[i].regs[x]
                                    - device.rows[i + 1].regs[x])
                       ELSE PyFloat(0)

\* C9 witness: a pair in which one register is held by the first reading
\* only and another register by both, with a negative difference
C9_Witness ==
    /\ pc = "processed"
    /\ device.regs = << <<"A">>, <<"a">> >>
    /\ Len(device.rows) = 2
    /\ DOMAIN device.rows[1].regs = {<<"A">>, <<"a">>}
    /\ DOMAIN device.rows[2].regs = {<<"a">>}
    /\ reduced.data[1][<<"a">>] = PyFloat(0)
    /\ reduced.data[1][<<"a","_","2">>] = PyFloat(-2)

--------------------------------------------------------------------------
(* Claims about the /extract route and the data table *)

\* no two rows of the data table have the same timestamp_egauge
NoDuplicateKeys ==
    \A i, j \in DOMAIN store.rows :
        i # j => KeyOf(store.rows[i]) # KeyOf(store.rows[j])

\* C6: the data table never holds two rows of one timestamp_egauge, and once
\* an extraction against a device has been persisted and answered with
\* success, running extraction and persistence again on the same device
\* answer leaves the table as it is: no row is added and none changes.
C6_UpsertIdempotent ==
    /\ []NoDuplicateKeys
    /\ [][response.success => store' = store]_vars

\* C6 witness: after a request answered with success, a second request on
\* the same device answer has upserted its two records again
C6_Witness ==
    /\ pc = "insert"
    /\ response.success
    /\ Len(data_to_insert) = 2
    /\ records_inserted = 2
    /\ Len(store.rows) = 2

--------------------------------------------------------------------------
(* Claims about the identifiers the sanitizers produce *)

\* C11 as stated: sanitize_column_name and sanitize_table_name never return
\* the empty string, no entry of make_columns_unique is empty, and a table
\* name never starts with a digit.
C11_Original ==
    /\ pc \in {"column", "column_again"} => column # <<>>
    /\ pc \in {"table", "table_again"} =>
           /\ table # <<>>
           /\ ~IsDigit(table[1])
    /\ pc = "done" => \A i \in DOMAIN unique_columns : unique_columns[i] # <<>>

--------------------------------------------------------------------------
(* Claims about the result of extract_data *)

\* the identifiers of the result given before position i
GivenBefore(i) == { result.sanitized_columns[j] : j \in 1..(i - 1) }

\* C12 as stated: on success columns is the list of raw register labels in
\* the declared order, and sanitized_columns has the length of columns with
\* sanitized_columns[i] the identifier assigned to columns[i].
C12_Original ==
    (pc = "extracted" /\ result.success) =>
        /\ result.columns = device.regs
        /\ Len(result.sanitized_columns) = Len(result.columns)
        /\ \A i \in DOMAIN result.sanitized_columns :
               result.sanitized_columns[i] =
                   UniqueOne(result.columns[i], GivenBefore(i))

\* C12 amended: on success columns is the three labels Date, Time,
\* Timestamp followed by the raw register labels in the declared order;
\* sanitized_columns has three entries fewer, its entries are distinct, and
\* sanitized_columns[i] is the identifier assigned to columns[i + 3].
C12_FixedThenRegisters ==
    (pc = "extracted" /\ result.success) =>
        /\ Len(result.columns) = 3 + Len(device.regs)
        /\ result.columns[1] = <<"D","a","t","e">>
        /\ result.columns[2] = <<"T","i","m","e">>
        /\ result.columns[3] = <<"T","i","m","e","s","t","a","m","p">>
        /\ \A i \in DOMAIN device.regs : result.columns[i + 3] = device.regs[i]
        /\ Len(result.sanitized_columns) = Len(result.columns) - 3
        /\ \A i \in DOMAIN result.sanitized_columns :
               /\ result.sanitized_columns[i] =
                      UniqueOne(result.columns[i + 3], GivenBefore(i))
               /\ result.sanitized_columns[i] \notin GivenBefore(i)

\* C12 witness: an extraction succeeded on a device that declares two
\* registers of one sanitized form
C12_Witness ==
    /\ pc = "extracted"
    /\ result.success
    /\ device.regs = << <<"A">>, <<"a">> >>
    /\ result.sanitized_columns = << <<"a">>, <<"a","_","2">> >>
    /\ Len(result.columns) = 5

\* the keys of a failure result that carries nothing of the extraction
FailureKeys == {"success", "error"}

\* C13: extract_data always returns a result and never lets an exception
\* leave the call: a device that cannot be connected to, a device that
\* cannot be read, fewer than two rows and an exception raised while the
\* answer is processed each give a result with success false and an error
\* message, and a failure result holds neither records nor columns nor a
\* register mapping.
C13_NeverRaises ==
    pc = "extracted" =>
        /\ "raised" \notin DOMAIN result
        /\ "success" \in DOMAIN result
        /\ ~device.auth =>
               ~result.success /\ result.error.msg = "Authentication failed"
        /\ (device.auth /\ ~device.fetch) =>
               /\ ~result.success
               /\ result.error.msg = "Failed to read data from device"
        /\ (Answered /\ ~EnoughRows) =>
               /\ ~result.success
               /\ result.error.msg =
                      "Not enough data in the specified range. Received only"
        /\ (Answered /\ EnoughRows /\ ~device.regs_ok) =>
               ~result.success /\ result.error.msg = "Unexpected error"
        /\ ~result.success =>
               /\ DOMAIN result = FailureKeys
               /\ result.error.msg # ""

\* C13 witness: the processing of an answer of three rows raised, and
\* extract_data returned the failure result of its outer except clause
C13_Witness ==
    /\ pc = "extracted"
    /\ Answered
    /\ Len(device.rows) = 3
    /\ ~device.regs_ok
    /\ ~result.success
    /\ result.error.msg = "Unexpected error"

--------------------------------------------------------------------------
(* Claims about the time range extract_data requests *)

\* the time parameter of a range that starts at start_ts and ends at end_ts
RangeSent(start_ts, end_ts) ==
    IntToStr(start_ts) \o <<":">> \o IntToStr(request.delta_hours * 3600)
                      \o <<":">> \o IntToStr(end_ts)

\* C14: when end_date is later than the clock's time the range requested
\* from the device ends at the clock's time, in whole seconds, and the call
\* goes on to the result the device's answer gives; when end_date is not
\* later the range is start_date..end_date as given. The end of the range
\* requested is never later than the clock's time.
C14_EndDateClamped ==
    (pc = "extracted" /\ device.auth) =>
        /\ DtGreater(request.end_date, request.now) =>
               /\ time_param = RangeSent(request.start_date.s, request.now.s)
               /\ (Answered /\ EnoughRows) => result.success
        /\ ~DtGreater(request.end_date, request.now) =>
               time_param = RangeSent(request.start_date.s, request.end_date.s)
        /\ \E end_ts \in { request.end_date.s, request.now.s } :
               /\ time_param = RangeSent(request.start_date.s, end_ts)
               /\ end_ts <= request.now.s

\* C14 witness: an extraction asked for a range ending the day after the
\* clock's day and succeeded
C14_Witness ==
    /\ pc = "extracted"
    /\ request.end_date.s > request.now.s
    /\ result.success
    /\ time_param # NoTimeParam

--------------------------------------------------------------------------
(* Claims about the table probe, the batches and the failures of the route *)

\* C15 as stated: the probe of the route leaves the store as it is; for a
\* table that exists it answers true, so that the route goes on to insert,
\* unless the probe could not be made, and then the error propagates into
\* a server error; only for a table that is missing does it answer false,
\* so that the route goes on to create the table.
C15_Original ==
    [][pc = "table_exists" =>
           /\ store' = store
           /\ store.exists =>
                  \/ pc' = "insert"
                  \/ pc' = "idle" /\ response'.error = "Server error"
           /\ ~store.exists =>
                  \/ pc' = "create"
                  \/ pc' = "idle" /\ response'.error = "Server error"]_vars

\* the records of a list of batches, in order
RECURSIVE Flatten(_)
Flatten(batches) ==
    IF batches = <<>> THEN <<>> ELSE Head(batches) \o Flatten(Tail(batches))

\* the upsert of a batch failed and the exception left insert_data_batch
ChunkFailed ==
    /\ pc = "idle"
    /\ ~response.success
    /\ response.status = 500
    /\ response.error = "Error inserting data"

\* insert_data_batch returned its count
Returned == pc = "idle" /\ ~ChunkFailed

\* C16: while no upsert fails, the batches insert_data_batch has submitted
\* are, put end to end, the first records of its input in input order, each
\* batch but the last holds exactly batch_size records and the last at
\* least one and at most batch_size; when it returns, every input record
\* has been submitted once and the count returned is the number of input
\* records, 0 and no batch for the empty list.
C16_ConsecutiveChunks ==
    ~ChunkFailed =>
        /\ Flatten(submitted) = SubSeq(data_to_insert, 1, records_inserted)
        /\ \A i \in DOMAIN submitted :
               /\ Len(submitted[i]) \in 1..batch_size
               /\ i < Len(submitted) => Len(submitted[i]) = batch_size
               /\ (i = Len(submitted) /\ records_inserted < Len(data_to_insert))
                      => Len(submitted[i]) = batch_size
        /\ Returned =>
               /\ Flatten(submitted) = data_to_insert
               /\ records_inserted = Len(data_to_insert)
               /\ response.success =>
                      response.records_inserted = Len(data_to_insert)
               /\ data_to_insert = <<>> => submitted = <<>>

\* C16 witness: three records were submitted with batch size 2, as a batch
\* of two and a batch of one, and the count returned is 3
C16_Witness ==
    /\ Returned
    /\ response.success
    /\ batch_size = 2
    /\ Len(data_to_insert) = 3
    /\ Len(submitted) = 2
    /\ Len(submitted[1]) = 2
    /\ Len(submitted[2]) = 1
    /\ response.records_inserted = 3

\* every record of the batch has a row of its timestamp_egauge in the table
Stored(batch) ==
    \A i \in DOMAIN batch :
        \E j \in DOMAIN store.rows : KeyOf(store.rows[j]) = KeyOf(batch[i])

\* C17: every batch submitted before the last one was stored, so no batch
\* is submitted after one whose upsert failed; when an upsert fails the
\* failed batch is the last one submitted, the response is a failure that
\* carries the store's error and no count of records, and the step that
\* fails leaves the client's columns and the batches stored before as they
\* were.
C17_ChunkFailureAborts ==
    /\ [](\A i \in 1..(Len(submitted) - 1) : Stored(submitted[i]))
    /\ [](ChunkFailed =>
              /\ submitted # <<>>
              /\ Flatten(SubSeq(submitted, 1, Len(submitted) - 1))
                     = SubSeq(data_to_insert, 1, records_inserted)
              /\ records_inserted < Len(data_to_insert)
              /\ response.status = 500
              /\ response.error_message # ""
              /\ "records_inserted" \notin DOMAIN response)
    /\ [][(pc = "insert" /\ pc' = "idle" /\ ~response'.success) =>
              client_columns' = client_columns]_vars
    /\ [][(~ChunkFailed /\ ChunkFailed') =>
              /\ client_columns' = client_columns
              /\ store' = store]_vars

\* C17 witness: of three records submitted one at a time the first was
\* stored and the upsert of the second failed; the third was not submitted
C17_Witness ==
    /\ ChunkFailed
    /\ Len(data_to_insert) = 3
    /\ batch_size = 1
    /\ Len(submitted) = 2
    /\ records_inserted = 1
    /\ client_columns = FixedColumns

\* the CREATE TABLE statement sql names the table tbl and declares, after
\* the six fixed columns, one FLOAT column for each identifier of cols, in
\* order, with timestamp_egauge unique
CreatesTable(sql, tbl, cols) ==
    /\ sql.table_name = tbl
    /\ Len(sql.columns_sql) = 6 + Len(cols)
    /\ sql.columns_sql[1][1] = "id"
    /\ sql.columns_sql[2] = <<"date", "DATE NOT NULL">>
    /\ sql.columns_sql[3] = <<"time", "TIME NOT NULL">>
    /\ sql.columns_sql[4] = <<"timestamp_egauge", "BIGINT NOT NULL">>
    /\ sql.columns_sql[5] = <<"tariff", "VARCHAR(20)">>
    /\ sql.columns_sql[6][1] = "created_at"
    /\ \A i \in DOMAIN cols : sql.columns_sql[6 + i] = <<cols[i], "FLOAT">>
    /\ sql.unique = "timestamp_egauge"

\* C18: when the table was not found and its creation fails, the request
\* is answered with a failure that carries the CREATE TABLE statement for
\* the client's table and the extraction's sanitized columns, and the store
\* is left as it was; the store changes only when the table is created or
\* while insert_data_batch runs, and insert_data_batch starts only after
\* the probe found the table or the creation succeeded.
C18_CreateFailureCarriesSql ==
    /\ [][(pc = "create" /\ pc' = "idle") =>
              /\ ~response'.success
              /\ response'.status = 500
              /\ response'.error = "Failed to create table automatically"
              /\ CreatesTable(response'.sql_to_run, DataTable,
                              result.sanitized_columns)
              /\ store' = store]_vars
    /\ [][store' # store =>
              \/ pc = "insert" /\ store.exists
              \/ pc = "create" /\ pc' = "insert" /\ store'.rows = store.rows]_vars
    /\ [][(pc # "insert" /\ pc' = "insert") =>
              \/ pc = "table_exists" /\ store.exists
              \/ pc = "create" /\ store'.exists]_vars

\* C18 witness: the table of an extraction with a register is missing, its
\* creation failed, and the response carries the statement
C18_Witness ==
    /\ pc = "idle"
    /\ ~response.success
    /\ response.status = 500
    /\ response.error = "Failed to create table automatically"
    /\ ~store.exists
    /\ result.success
    /\ result.sanitized_columns = << <<"a">> >>
    /\ Len(response.sql_to_run.columns_sql) = 7

--------------------------------------------------------------------------
(* Claims about the columns of the records *)

\* the keys of a record besides date, time, timestamp and tariff
ValueColumns(row) == DOMAIN row \ {KeyDate, KeyTime, KeyTimestamp, KeyTariff}

\* C19 as stated: in a successful extraction every record holds, besides
\* date, time, timestamp and tariff, exactly the identifiers of
\* sanitized_columns, each with a float, and the value of every declared
\* register is under the identifier the result's register mapping gives it.
C19_Original ==
    (pc = "extracted" /\ result.success) =>
        \A i \in DOMAIN result.data :
            /\ ValueColumns(result.data[i]) = Range(result.sanitized_columns)
            /\ \A c \in ValueColumns(result.data[i]) :
                   result.data[i][c][1] = "float"
            /\ \A x \in Range(device.regs) :
                   result.register_mapping[x] \in DOMAIN result.data[i]

\* the anchor reading of the i-th record: the second reading of its pair
Anchor(i) == fromtimestamp(device.rows[i + 1].ts)

\* C20 as stated: whatever the register labels, every record of a
\* successful extraction has the date, time, timestamp and tariff of its
\* anchor reading, and the row prepared from it for the upsert has them
\* too, the timestamp under timestamp_egauge.
C20_Original ==
    /\ (pc \in {"table_exists", "create", "insert"} /\ result.success) =>
           \A i \in DOMAIN result.data :
               /\ result.data[i][KeyDate] = PyStr(StrfDate(Anchor(i)))
               /\ result.data[i][KeyTime] = PyStr(StrfTime(Anchor(i)))
               /\ result.data[i][KeyTimestamp] = PyInt(device.rows[i + 1].ts)
               /\ result.data[i][KeyTariff] = PyStr(classify_tariff(Anchor(i)))
    /\ pc = "insert" =>
           \A i \in DOMAIN data_to_insert :
               /\ data_to_insert[i][KeyDate] = PyStr(StrfDate(Anchor(i)))
               /\ data_to_insert[i][KeyTime] = PyStr(StrfTime(Anchor(i)))
               /\ data_to_insert[i][KeyTimestampEgauge]
                      = PyInt(device.rows[i + 1].ts)
               /\ data_to_insert[i][KeyTariff]
                      = PyStr(classify_tariff(Anchor(i)))

--------------------------------------------------------------------------
(* Claims about the sample instants of tests/test_tariff.py *)

\* the tariffs the comments of test_cases give, in order
Annotated == <<"Intermedio", "Base", "Punta", "Intermedio", "Base", "Base">>

--------------------------------------------------------------------------
(* Claims about the response of a successful extraction request *)

\* C22 as stated: the response of a successful extraction request has
\* table_created true exactly when the table was missing at the start of
\* the request and the request created it, and false when the table was
\* already there.
C22_Original ==
    [][(pc = "insert" /\ pc' = "idle" /\ response'.success) =>
           response'.table_created = created]_vars

--------------------------------------------------------------------------
(* Claims about the client records *)

\* C23 as stated: after any sequence of create, update and delete
\* requests no two client records have the same name, and no two have the
\* same data_table.
C23_Original ==
    \A c, d \in clients :
        c.id # d.id => (c.name # d.name /\ c.data_table # d.data_table)

--------------------------------------------------------------------------
(* Claims about extract_month_data *)

\* C24 as stated: when the device answers with fewer than two rows, none
\* as well as one, extract_month_data returns the error result
\* 'Insufficient data', and neither the rows nor the period summary have
\* been processed.
C24_Original ==
    (pc = "month_extracted" /\ Answered /\ device.regs_ok /\ ~EnoughRows) =>
        /\ DOMAIN result = {"error"}
        /\ result.error.msg = "Insufficient data"
        /\ result.error.detail = <<>>

==========================================================================
